---- MODULE Spec2Model ----
(***************************************************************************)
(* Model of resolve.py: the iterative DNS resolver `lookup` with its       *)
(* process-wide CACHE and _LAST_NAMESERVERS hint, the CLI layer            *)
(* `collect_results` / `print_results`, and a mock UDP transport whose     *)
(* reply to every query is chosen by the environment.                      *)
(*                                                                         *)
(* Names are label sequences ending in the empty root label, as in         *)
(* dns.name.Name.labels.  Server addresses are numbered: ROOT_SERVERS are  *)
(* 1..13 in the order of the source tuple, other IPv4 addresses follow,    *)
(* and V6Addr stands for an address whose text contains ":".               *)
(***************************************************************************)
EXTENDS Integers, Sequences, FiniteSets, TLC

VARIABLES
    CACHE,              \* the module-level dict CACHE: key -> cached value
    LAST_NAMESERVERS,   \* the module-level list _LAST_NAMESERVERS
    stack,              \* active calls of lookup, innermost last
    ret,                \* value just returned by the innermost finished call
    outcome,            \* how the last top-level call ended
    cur,                \* the current / last top-level call: name and type,
                        \* whether it missed the cache, and whether every
                        \* query since it began failed or got an empty message
    prev,               \* cur and outcome of the top-level call before it
    calls,              \* number of top-level calls started
    replies,            \* number of decoded replies the transport delivered
    cli,                \* the running collect_results call of the CLI
    printed             \* the lines print_results has written

vars == <<CACHE, LAST_NAMESERVERS, stack, ret, outcome, cur, prev, calls,
          replies, cli, printed>>

----------------------------------------------------------------------------
(* Bounds of the model *)

MaxCalls == 2       \* top-level calls of lookup in one run
MaxReplies == 2     \* decoded replies in one run; later queries time out
LiveRoots == 2      \* root servers that answer; the other roots time out
WideGlue == 30      \* addresses in the glue of the widest referral of the mock

----------------------------------------------------------------------------
(* Names *)

Root == <<"">>
ZoneT == <<"t", "">>
NameX == <<"x", "t", "">>
NameXUpper == <<"X", "t", "">>
NameY == <<"y", "t", "">>
NameNs == <<"ns", "t", "">>
NameA == <<"a", "">>

Names == {Root, ZoneT, NameX, NameXUpper, NameY, NameNs, NameA}

\* Name.parent(): drops the leftmost label (NoParent on the root is raised
\* by the caller, ScanAncestors)
Parent(n) == Tail(n)

RECURSIVE LabelsText(_)
LabelsText(n) == IF Len(n) = 1 THEN "" ELSE Head(n) \o "." \o LabelsText(Tail(n))

\* str(name): the labels joined by dots, letter case kept as given
ToText(n) == IF n = Root THEN "." ELSE LabelsText(n)

\* dns.name.from_text: a text without the final dot is taken from the root
FromText(s) == CHOOSE n \in Names : ToText(n) = s \/ ToText(n) = s \o "."

\* Lower-casing of one label / of a name (the canonical form of the data model)
LowerLabel(l) == IF l = "X" THEN "x" ELSE l
Lower(n) == [i \in 1..Len(n) |-> LowerLabel(n[i])]

----------------------------------------------------------------------------
(* Records, record sets, messages *)

QTypes == {"CNAME", "A", "AAAA", "MX"}

ROOT_SERVERS == <<1, 2, 3, 4, 5, 6, 7, 8, 9, 10, 11, 12, 13>>

SeedAddr == Len(ROOT_SERVERS) + 1   \* address of the name server a.
GlueAddr == SeedAddr + 1            \* first glue address of ns.t.
GlueAddr2 == GlueAddr + 1           \* second glue address of ns.t.
HostAddr == GlueAddr2 + 1           \* the A record data of a host
V6Addr == HostAddr + 1              \* the AAAA record data of a host (text contains ":")

HasColon(addr) == addr = V6Addr

NoName == <<>>

Rdata(t, addr, pref, target) ==
    [kind |-> "rr", rdtype |-> t, addr |-> addr, preference |-> pref, target |-> target]

ARec(addr) == Rdata("A", addr, 0, NoName)
AAAARec(addr) == Rdata("AAAA", addr, 0, NoName)
CNAMERec(target) == Rdata("CNAME", 0, 0, target)
NSRec(target) == Rdata("NS", 0, 0, target)
MXRec(pref, exch) == Rdata("MX", 0, pref, exch)

RRset(owner, t, items) == [name |-> owner, rdtype |-> t, items |-> items]

Message(qname, qtype, ans, auth, add) ==
    [kind |-> "msg", q |-> <<qname, qtype>>,
     answer |-> ans, authority |-> auth, additional |-> add]

\* dns.message.make_response(dns.message.make_query(name, qtype))
MakeResponse(qname, qtype) == Message(qname, qtype, <<>>, <<>>, <<>>)

\* getattr(value, "answer", []) / getattr(value, "authority", [])
GetAnswer(v) == IF v.kind = "msg" THEN v.answer ELSE <<>>
GetAuthority(v) == IF v.kind = "msg" THEN v.authority ELSE <<>>

Range(s) == {s[i] : i \in 1..Len(s)}

\* list.append(x) guarded by "x not in list"
AppendNew(s, x) == IF x \in Range(s) THEN s ELSE Append(s, x)

RECURSIVE Flatten(_)
Flatten(ss) == IF ss = <<>> THEN <<>> ELSE Head(ss) \o Flatten(Tail(ss))

\* all records of a section, record set after record set
Records(section) == Flatten([i \in 1..Len(section) |-> section[i].items])

----------------------------------------------------------------------------
(* The cache *)

Key(name, qtype) == <<ToText(name), qtype>>

Put(cache, key, v) ==
    [k \in DOMAIN cache \cup {key} |-> IF k = key THEN v ELSE cache[k]]

\* the loops "for rrset in X.answer: if rrset.rdtype == A: for rr in rrset:
\*   ipv4 = str(rr); if ':' not in ipv4 and ipv4 not in next_ns_ips: append"
RECURSIVE AddAddrs(_, _)
AddAddrs(ips, recs) ==
    IF recs = <<>> THEN ips
    ELSE LET ipv4 == Head(recs).addr
         IN AddAddrs(IF ~HasColon(ipv4) /\ ipv4 \notin Range(ips)
                        THEN Append(ips, ipv4) ELSE ips,
                     Tail(recs))

OfType(section, t) == SelectSeq(section, LAMBDA rrset : rrset.rdtype = t)

\* addresses gathered from the answer section of a cached / returned value
GatherA(ips, v) == AddAddrs(ips, Records(OfType(GetAnswer(v), "A")))

\* lines 107-121: addresses of the NS targets of a cached delegation
RECURSIVE NsTargetAddrs(_, _, _)
NsTargetAddrs(ips, targets, cache) ==
    IF targets = <<>> THEN ips
    ELSE LET a_key == <<ToText(Head(targets).target), "A">>
         IN NsTargetAddrs(IF a_key \in DOMAIN cache THEN GatherA(ips, cache[a_key])
                                                    ELSE ips,
                          Tail(targets), cache)

CachedNsIps(ns_resp, cache) ==
    NsTargetAddrs(<<>>, Records(OfType(GetAuthority(ns_resp), "NS")), cache)

\* lines 102-124: the ancestor scan.  "exhausted" is the normal end of the
\* while loop (parent.labels empty), "NoParent" the exception of
\* Name.parent() on the root, "break" the exit with addresses found.
RECURSIVE ScanAncestors(_, _)
ScanAncestors(parent, cache) ==
    IF Len(parent) = 0 THEN [end |-> "exhausted", ips |-> <<>>]
    ELSE IF parent = Root THEN [end |-> "NoParent", ips |-> <<>>]
    ELSE LET p == Parent(parent)
             ns_key == <<ToText(p), "NS">>
             next_ns_ips == IF ns_key \in DOMAIN cache
                               THEN CachedNsIps(cache[ns_key], cache) ELSE <<>>
         IN IF next_ns_ips # <<>> THEN [end |-> "break", ips |-> next_ns_ips]
                                  ELSE ScanAncestors(p, cache)

----------------------------------------------------------------------------
(* Referral processing, lines 175-195 and 224-227 *)

\* "for rrset in section: for rr in rrset": the (owner, record) pairs
RECURSIVE Pairs(_)
Pairs(section) ==
    IF section = <<>> THEN <<>>
    ELSE LET rrset == Head(section)
         IN [i \in 1..Len(rrset.items) |-> <<rrset.name, rrset.items[i]>>]
               \o Pairs(Tail(section))

\* the pairs of the A record sets of the additional section
GluePairs(section) == Pairs(OfType(section, "A"))

\* the largest index of a non-empty set of indices
Last(idxs) == CHOOSE i \in idxs : \A j \in idxs : j <= i

\* the elements of seq at the indices idxs, in the order of seq
Pick(seq, idxs) ==
    [k \in 1..Cardinality(idxs) |->
        seq[CHOOSE i \in idxs : Cardinality({j \in idxs : j <= i}) = k]]

\* the cache after "CACHE[(str(owner), A)] = rr" for the pairs at idxs, one
\* after the other: under each owner the record written last stays
PutGlue(cache, pairs, idxs) ==
    LET keys == {Key(pairs[i][1], "A") : i \in idxs}
    IN [k \in DOMAIN cache \cup keys |->
           IF k \in keys
              THEN pairs[Last({i \in idxs : Key(pairs[i][1], "A") = k})][2]
              ELSE cache[k]]

\* lines 178-184 without the test "if ipv4 not in next_ns_ips": every glue
\* record adds its address and is written to the cache
CollectGlue_KeepsDuplicates(cache, pairs) ==
    [ips |-> [k \in 1..Len(pairs) |-> pairs[k][2].addr],
     cache |-> PutGlue(cache, pairs, 1..Len(pairs))]

\* lines 178-184: [ips, cache] after the glue loop.  A record whose address
\* is not yet in next_ns_ips adds the address and is written to the cache.
CollectGlue(cache, pairs) ==
    LET new == {i \in 1..Len(pairs) :
                   \A j \in 1..i - 1 : pairs[j][2].addr # pairs[i][2].addr}
    IN [ips |-> [k \in 1..Cardinality(new) |-> Pick(pairs, new)[k][2].addr],
        cache |-> PutGlue(cache, pairs, new)]

\* lines 224-227: every glue record is written again, the last one stays
CacheGlue(cache, pairs) == PutGlue(cache, pairs, 1..Len(pairs))

\* lines 187-193: the NS target names, as text, without repetition
RECURSIVE NsNames(_, _)
NsNames(names, recs) ==
    IF recs = <<>> THEN names
    ELSE NsNames(AppendNew(names, ToText(Head(recs).target)), Tail(recs))

\* line 195: the whole reply is cached under (owner, NS) of each NS record set
RECURSIVE CacheDelegations(_, _, _)
CacheDelegations(cache, section, response) ==
    IF section = <<>> THEN cache
    ELSE CacheDelegations(IF Head(section).rdtype = "NS"
                             THEN Put(cache, Key(Head(section).name, "NS"), response)
                             ELSE cache,
                          Tail(section), response)

----------------------------------------------------------------------------
(* The mock transport: the decoded replies a server may give to a query *)

Zone(qname) == IF Len(qname) > 1 THEN Parent(qname) ELSE Root

OwnData(qtype) ==
    CASE qtype = "A" -> <<ARec(HostAddr)>>
      [] qtype = "AAAA" -> <<AAAARec(V6Addr)>>
      [] qtype = "MX" -> <<MXRec(10, NameY)>>
      [] OTHER -> <<CNAMERec(NameY)>>

\* an answer owned by the queried name, of the queried type
OwnAnswer(qname, qtype) ==
    Message(qname, qtype, <<RRset(qname, qtype, OwnData(qtype))>>, <<>>, <<>>)

\* an answer that is a CNAME of the queried name
CnameAnswer(qname, qtype, target) ==
    Message(qname, qtype, <<RRset(qname, "CNAME", <<CNAMERec(target)>>)>>, <<>>, <<>>)

\* an answer whose only record set is owned by another name
UnrelatedAnswer(qname, qtype) ==
    Message(qname, qtype, <<RRset(NameA, "A", <<ARec(HostAddr)>>)>>, <<>>, <<>>)

\* a referral with glue: two addresses, the first one listed twice
GluedReferral(qname, qtype) ==
    Message(qname, qtype, <<>>,
            <<RRset(Zone(qname), "NS", <<NSRec(NameNs)>>)>>,
            <<RRset(NameNs, "A", <<ARec(GlueAddr), ARec(GlueAddr2), ARec(GlueAddr)>>)>>)

\* a referral whose glue lists WideGlue addresses, none of which answers
WideReferral(qname, qtype) ==
    Message(qname, qtype, <<>>,
            <<RRset(Zone(qname), "NS", <<NSRec(NameNs)>>)>>,
            <<RRset(NameNs, "A", [i \in 1..WideGlue |-> ARec(V6Addr + i)])>>)

\* a referral without glue
UngluedReferral(qname, qtype) ==
    Message(qname, qtype, <<>>, <<RRset(Zone(qname), "NS", <<NSRec(NameNs)>>)>>, <<>>)

AnswerReplies(qname, qtype) ==
    {OwnAnswer(qname, qtype), UnrelatedAnswer(qname, qtype)}
    \cup {CnameAnswer(qname, qtype, t) : t \in {NameY, NameNs}}

ReferralReplies(qname, qtype) ==
    {GluedReferral(qname, qtype), UngluedReferral(qname, qtype),
     WideReferral(qname, qtype), MakeResponse(qname, qtype)}

\* the servers of the mock that deliver decoded replies; a query to any
\* other address times out
LiveServers ==
    {ROOT_SERVERS[i] : i \in 1..LiveRoots} \cup {SeedAddr, GlueAddr, GlueAddr2}

HasCname(answer) == OfType(answer, "CNAME") # <<>>

----------------------------------------------------------------------------
(* Calls of lookup *)

MAX_FAILS == 4

None == [kind |-> "none"]

Frame(name, qtype, site) ==
    [target_name |-> name, qtype |-> qtype, site |-> site, pc |-> "entry",
     nameservers |-> <<>>, iter |-> <<>>, idx |-> 1,
     tried |-> {}, order |-> <<>>, fail_count |-> 0,
     response |-> None, cname_target |-> NoName,
     cname_response |-> None, a_response |-> None,
     ns_names |-> <<>>, ns_i |-> 1, next_ns_ips |-> <<>>]

Top == stack[Len(stack)]
Pop(stk) == SubSeq(stk, 1, Len(stk) - 1)
SetTop(stk, f) == [stk EXCEPT ![Len(stk)] = f]

Running(pc) == stack # <<>> /\ ret = None /\ Top.pc = pc
Resuming(pc) == stack # <<>> /\ ret # None /\ Top.pc = pc

Returned(v) == [status |-> "returned", value |-> v, exc |-> ""]
Raised(e) == [status |-> "raised", value |-> None, exc |-> e]
Pending == [status |-> "pending", value |-> None, exc |-> ""]

NoCall == [call |-> <<NoName, "">>, miss |-> FALSE, quiet |-> TRUE]

\* collect_results: stage 0 is no call, 1..4 the lookup of CNAME, A, AAAA,
\* MX under way, 5 printed, 6 ended by an exception of its own
NoCli == [stage |-> 0, name |-> "", responses |-> <<>>, cnames |-> <<>>,
          arecords |-> <<>>, aaaarecords |-> <<>>, mxrecords |-> <<>>]

\* An exception leaves the innermost call.  The call made at line 205 sits
\* in try/except Exception (lines 204-208): its caller goes on with the next
\* NS name.  Every other call site lets the exception through.
RECURSIVE Unwind(_)
Unwind(stk) ==
    LET f == stk[Len(stk)]
        rest == Pop(stk)
    IN IF f.site = "top" THEN <<>>
       ELSE IF f.site = "ns"
               THEN SetTop(rest, [rest[Len(rest)] EXCEPT
                                     !.pc = "nsloop", !.ns_i = @ + 1])
               ELSE Unwind(rest)

\* a call of lookup from the innermost frame, already updated in stk
Invoke(stk, callee) == Append(stk, callee)

\* lines 133-135 without the test "if ns in tried: continue"
NextIdx_IgnoresTried(f) == IF f.idx <= Len(f.iter) THEN f.idx ELSE 0

\* the first address of the iterated list that is not in tried (lines 133-135)
NextIdx(f) ==
    LET open == {j \in f.idx..Len(f.iter) : f.iter[j] \notin f.tried}
    IN IF open = {} THEN 0 ELSE CHOOSE j \in open : \A k \in open : j <= k

\* "while nameservers: for ns in nameservers:" starts iterating the list
\* that the variable nameservers holds now
EnterLoop(f) == [f EXCEPT !.iter = f.nameservers, !.idx = 1, !.pc = "for"]

----------------------------------------------------------------------------
(* Initial states.  The process starts with the empty cache (line 87);  *)
(* from it every lookup that misses the cache ends in the ancestor scan *)
(* (ScanRaises), so the walker runs only when the cache already holds a *)
(* delegation whose name server has a cached address.  The second       *)
(* initial cache holds such entries, in the form lines 195 and 171      *)
(* write them: the root zone delegated to a., and the address of a.     *)

RootDelegation ==
    Message(NameA, "A", <<>>, <<RRset(Root, "NS", <<NSRec(NameA)>>)>>, <<>>)

SeededCache ==
    Put(Put(<<>>, Key(Root, "NS"), RootDelegation),
        Key(NameA, "A"),
        Message(NameA, "A", <<RRset(NameA, "A", <<ARec(SeedAddr)>>)>>, <<>>, <<>>))

Init ==
    /\ CACHE \in {<<>>, SeededCache}
    /\ LAST_NAMESERVERS = ROOT_SERVERS
    /\ stack = <<>>
    /\ ret = None
    /\ outcome = Pending
    /\ cur = NoCall
    /\ prev = [call |-> NoCall.call, outcome |-> Pending]
    /\ calls = 0
    /\ replies = 0
    /\ cli = NoCli
    /\ printed = <<>>

----------------------------------------------------------------------------
(* Top-level calls *)

TopNames == {NameX, NameXUpper}

\* a caller (a test, the CLI layer) calls lookup(name, qtype)
CallLookup(name, qtype) ==
    /\ stack = <<>> /\ ret = None
    /\ cli.stage = 0
    /\ calls < MaxCalls
    /\ stack' = <<Frame(name, qtype, "top")>>
    /\ calls' = calls + 1
    /\ prev' = [call |-> cur.call, outcome |-> outcome]
    /\ cur' = [call |-> <<name, qtype>>,
               miss |-> Key(name, qtype) \notin DOMAIN CACHE, quiet |-> TRUE]
    /\ outcome' = Pending
    /\ UNCHANGED <<CACHE, LAST_NAMESERVERS, ret, replies, cli, printed>>

\* the top-level call hands its value to the caller
TopReturn ==
    /\ stack = <<>> /\ ret # None
    /\ cli.stage = 0
    /\ outcome' = Returned(ret)
    /\ ret' = None
    /\ UNCHANGED <<CACHE, LAST_NAMESERVERS, stack, cur, prev, calls, replies, cli, printed>>

\* an exception raised in the innermost call: stack and outcome afterwards
RaiseFrom(stk, e) ==
    /\ stack' = Unwind(stk)
    /\ outcome' = IF Unwind(stk) = <<>> THEN Raised(e) ELSE outcome

----------------------------------------------------------------------------
(* lookup, lines 97-130: cache check, ancestor scan, walker state *)

\* lines 97-99
CacheHit ==
    /\ Running("entry")
    /\ Key(Top.target_name, Top.qtype) \in DOMAIN CACHE
    /\ ret' = CACHE[Key(Top.target_name, Top.qtype)]
    /\ stack' = Pop(stack)
    /\ UNCHANGED <<CACHE, LAST_NAMESERVERS, outcome, cur, prev, calls, replies, cli, printed>>

\* lines 102-104: the scan reaches the root and Name.parent() raises NoParent
ScanRaises ==
    /\ Running("entry")
    /\ Key(Top.target_name, Top.qtype) \notin DOMAIN CACHE
    /\ ScanAncestors(Top.target_name, CACHE).end = "NoParent"
    /\ RaiseFrom(stack, "NoParent")
    /\ UNCHANGED <<CACHE, LAST_NAMESERVERS, ret, cur, prev, calls, replies, cli, printed>>

\* lines 102-130: the scan ends without an exception; the walker starts from
\* the hint, which the scan has replaced when it found addresses
StartWalker ==
    /\ Running("entry")
    /\ Key(Top.target_name, Top.qtype) \notin DOMAIN CACHE
    /\ LET scan == ScanAncestors(Top.target_name, CACHE)
           hint == IF scan.end = "break" THEN scan.ips ELSE LAST_NAMESERVERS
       IN /\ scan.end # "NoParent"
          /\ LAST_NAMESERVERS' = hint
          /\ stack' = SetTop(stack, EnterLoop([Top EXCEPT !.nameservers = hint]))
    /\ UNCHANGED <<CACHE, ret, outcome, cur, prev, calls, replies, cli, printed>>

----------------------------------------------------------------------------
(* lookup, lines 132-172 and 233-239: the walker loop *)

\* the frame after "tried.add(ns)" and the sending of the query to iter[j]
Asked(f, j) ==
    [f EXCEPT !.tried = @ \cup {f.iter[j]}, !.order = Append(@, f.iter[j]),
              !.idx = j + 1]

\* lines 233-239 without line 238: the empty Response is not cached
Fallback_NotCached ==
    /\ Running("for")
    /\ NextIdx(Top) = 0
    /\ ret' = MakeResponse(Top.target_name, Top.qtype)
    /\ stack' = Pop(stack)
    /\ UNCHANGED <<CACHE, LAST_NAMESERVERS, outcome, cur, prev, calls, replies, cli, printed>>

\* lines 233-239: the for loop ends without break; the empty Response is
\* made, cached and returned
Fallback ==
    /\ Running("for")
    /\ NextIdx(Top) = 0
    /\ LET empty == MakeResponse(Top.target_name, Top.qtype)
       IN /\ CACHE' = Put(CACHE, Key(Top.target_name, Top.qtype), empty)
          /\ ret' = empty
    /\ stack' = Pop(stack)
    /\ UNCHANGED <<LAST_NAMESERVERS, outcome, cur, prev, calls, replies, cli, printed>>

\* lines 138-148 with a failure that also passes over the next address
QueryFail_SkipsNext ==
    /\ Running("for")
    /\ NextIdx(Top) # 0
    /\ LET f == Asked(Top, NextIdx(Top))
       IN stack' = SetTop(stack, [f EXCEPT !.fail_count = @ + 1, !.idx = @ + 1])
    /\ UNCHANGED <<CACHE, LAST_NAMESERVERS, ret, outcome, cur, prev, calls,
                   replies, cli, printed>>

\* lines 138-148: the query raises (timeout, socket error, undecodable reply)
QueryFail ==
    /\ Running("for")
    /\ NextIdx(Top) # 0
    /\ LET f == Asked(Top, NextIdx(Top))
           reset == f.fail_count + 1 >= MAX_FAILS
       IN /\ LAST_NAMESERVERS' = IF reset THEN ROOT_SERVERS ELSE LAST_NAMESERVERS
          /\ stack' = SetTop(stack,
                 [f EXCEPT !.fail_count = IF reset THEN 0 ELSE @ + 1,
                           !.nameservers = IF reset THEN ROOT_SERVERS ELSE @])
    /\ UNCHANGED <<CACHE, ret, outcome, cur, prev, calls, replies, cli, printed>>

\* lines 151-153, 171-172: a reply with an answer section and no CNAME record
\* set is cached and returned as it is
QueryAnswer ==
    /\ Running("for")
    /\ NextIdx(Top) # 0
    /\ Top.iter[NextIdx(Top)] \in LiveServers
    /\ replies < MaxReplies
    /\ \E response \in AnswerReplies(Top.target_name, Top.qtype) :
          /\ ~HasCname(response.answer)
          /\ LAST_NAMESERVERS' = <<Top.iter[NextIdx(Top)]>>
          /\ CACHE' = Put(CACHE, Key(Top.target_name, Top.qtype), response)
          /\ ret' = response
    /\ stack' = Pop(stack)
    /\ replies' = replies + 1
    /\ cur' = [cur EXCEPT !.quiet = FALSE]
    /\ UNCHANGED <<outcome, prev, calls, cli, printed>>

\* lines 151-157: the first CNAME record set of the answer is followed
QueryCname ==
    /\ Running("for")
    /\ NextIdx(Top) # 0
    /\ Top.iter[NextIdx(Top)] \in LiveServers
    /\ replies < MaxReplies
    /\ \E response \in AnswerReplies(Top.target_name, Top.qtype) :
          /\ HasCname(response.answer)
          /\ LET f == Asked(Top, NextIdx(Top))
                 cname_target == OfType(response.answer, "CNAME")[1].items[1].target
                 caller == [f EXCEPT !.fail_count = 0, !.response = response,
                                     !.cname_target = cname_target,
                                     !.pc = "wait_cname"]
                 stk == Invoke(SetTop(stack, caller),
                               Frame(cname_target, Top.qtype, "cname"))
             IN /\ LAST_NAMESERVERS' = <<Top.iter[NextIdx(Top)]>>
                /\ stack' = stk
    /\ replies' = replies + 1
    /\ cur' = [cur EXCEPT !.quiet = FALSE]
    /\ UNCHANGED <<CACHE, ret, outcome, prev, calls, cli, printed>>

\* line 157 returned: line 158 calls lookup(cname_target, A)
ResumeCname ==
    /\ Resuming("wait_cname")
    /\ LET caller == [Top EXCEPT !.cname_response = ret, !.pc = "wait_a"]
           stk == Invoke(SetTop(stack, caller), Frame(Top.cname_target, "A", "a"))
       IN stack' = stk
    /\ ret' = None
    /\ UNCHANGED <<CACHE, LAST_NAMESERVERS, outcome, cur, prev, calls, replies, cli, printed>>

\* line 158 returned: line 159 calls lookup(cname_target, AAAA)
ResumeA ==
    /\ Resuming("wait_a")
    /\ LET caller == [Top EXCEPT !.a_response = ret, !.pc = "wait_aaaa"]
           stk == Invoke(SetTop(stack, caller), Frame(Top.cname_target, "AAAA", "aaaa"))
       IN stack' = stk
    /\ ret' = None
    /\ UNCHANGED <<CACHE, LAST_NAMESERVERS, outcome, cur, prev, calls, replies, cli, printed>>

\* lines 161-165: the answer of the merged response
MergedAnswer(response, cname_response, a_response, aaaa_response) ==
    response.answer \o cname_response.answer \o a_response.answer
                    \o aaaa_response.answer

\* lines 167-168 without line 167: the reply is not kept under (name, CNAME)
MergeCache_NoCnameEntry(cache, f, merged) ==
    Put(cache, Key(f.target_name, f.qtype), merged)

\* lines 167-168: the reply under (name, CNAME), then the merged response
\* under the key of the call
MergeCache(cache, f, merged) ==
    Put(Put(cache, Key(f.target_name, "CNAME"), f.response),
        Key(f.target_name, f.qtype), merged)

\* lines 161-169: line 159 returned; the merged response is built, the reply
\* is cached under (name, CNAME), the merged response under the key, in
\* this order, and the merged response is returned
Merge ==
    /\ Resuming("wait_aaaa")
    /\ Top.cname_response.kind = "msg" /\ Top.a_response.kind = "msg"
    /\ ret.kind = "msg"
    /\ LET merged == Message(Top.target_name, Top.qtype,
                             MergedAnswer(Top.response, Top.cname_response,
                                          Top.a_response, ret),
                             <<>>, <<>>)
       IN /\ CACHE' = MergeCache(CACHE, Top, merged)
          /\ ret' = merged
    /\ stack' = Pop(stack)
    /\ UNCHANGED <<LAST_NAMESERVERS, outcome, cur, prev, calls, replies, cli, printed>>

\* lines 163-165: one of the three values is a bare record taken from the
\* cache; reading its .answer raises AttributeError
MergeRaises ==
    /\ Resuming("wait_aaaa")
    /\ ~(Top.cname_response.kind = "msg" /\ Top.a_response.kind = "msg"
          /\ ret.kind = "msg")
    /\ RaiseFrom(stack, "AttributeError")
    /\ ret' = None
    /\ UNCHANGED <<CACHE, LAST_NAMESERVERS, cur, prev, calls, replies, cli, printed>>

----------------------------------------------------------------------------
(* lookup, lines 174-232: referrals *)

\* lines 217-232 without the test "if not next_ns_ips" of line 218: the
\* addresses found, even none, become candidates and hint
AfterReferral_NoRootReset(f, ips, cache) ==
    [hint |-> ips,
     cache |-> CacheGlue(cache, GluePairs(f.response.additional)),
     frame |-> EnterLoop([f EXCEPT !.nameservers = ips, !.ns_names = <<>>,
                                   !.ns_i = 1, !.next_ns_ips = <<>>])]

\* lines 217-232: the end of the referral branch.  Without addresses the
\* walker restarts from the roots; with addresses the glue records are
\* cached again and the addresses become candidates and hint.  Both break
\* out of the for loop, and the while loop starts a new round.  The local
\* variable response keeps the reply until the next one is assigned.
AfterReferral(f, ips, cache) ==
    IF ips = <<>>
       THEN [hint |-> ROOT_SERVERS, cache |-> cache,
             frame |-> EnterLoop([f EXCEPT !.nameservers = ROOT_SERVERS,
                                           !.ns_names = <<>>,
                                           !.ns_i = 1, !.next_ns_ips = <<>>])]
       ELSE [hint |-> ips,
             cache |-> CacheGlue(cache, GluePairs(f.response.additional)),
             frame |-> EnterLoop([f EXCEPT !.nameservers = ips,
                                           !.ns_names = <<>>,
                                           !.ns_i = 1, !.next_ns_ips = <<>>])]

\* lines 174-198: a reply with an empty answer section.  Glue addresses and
\* NS names are collected and cached; unglued NS names are resolved next.
QueryReferral ==
    /\ Running("for")
    /\ NextIdx(Top) # 0
    /\ Top.iter[NextIdx(Top)] \in LiveServers
    /\ replies < MaxReplies
    /\ \E response \in ReferralReplies(Top.target_name, Top.qtype) :
          LET f == [Asked(Top, NextIdx(Top)) EXCEPT !.fail_count = 0,
                                                   !.response = response]
              glue == CollectGlue(CACHE, GluePairs(response.additional))
              ns_names == NsNames(<<>>, Records(OfType(response.authority, "NS")))
              cache == CacheDelegations(glue.cache, response.authority, response)
              after == AfterReferral(f, glue.ips, cache)
          IN /\ IF glue.ips = <<>> /\ ns_names # <<>>
                THEN /\ stack' = SetTop(stack, [f EXCEPT !.ns_names = ns_names,
                                                         !.ns_i = 1, !.pc = "nsloop"])
                     /\ CACHE' = cache
                     /\ UNCHANGED LAST_NAMESERVERS
                ELSE /\ stack' = SetTop(stack, after.frame)
                     /\ CACHE' = after.cache
                     /\ LAST_NAMESERVERS' = after.hint
             /\ cur' = [cur EXCEPT !.quiet =
                           @ /\ response = MakeResponse(Top.target_name, Top.qtype)]
    /\ replies' = replies + 1
    /\ UNCHANGED <<ret, outcome, prev, calls, cli, printed>>

\* lines 199-202, 210-215: the NS name has a cache entry; the addresses of
\* its answer section are gathered
NsCached ==
    /\ Running("nsloop")
    /\ Top.ns_i <= Len(Top.ns_names)
    /\ <<Top.ns_names[Top.ns_i], "A">> \in DOMAIN CACHE
    /\ stack' = SetTop(stack,
          [Top EXCEPT !.next_ns_ips = GatherA(@, CACHE[<<Top.ns_names[Top.ns_i], "A">>]),
                      !.ns_i = @ + 1])
    /\ UNCHANGED <<CACHE, LAST_NAMESERVERS, ret, outcome, cur, prev, calls, replies, cli, printed>>

\* lines 203-205: the NS name has no cache entry; lookup(ns_name, A) is called
NsCall ==
    /\ Running("nsloop")
    /\ Top.ns_i <= Len(Top.ns_names)
    /\ <<Top.ns_names[Top.ns_i], "A">> \notin DOMAIN CACHE
    /\ stack' = Invoke(SetTop(stack, [Top EXCEPT !.pc = "wait_ns"]),
                       Frame(FromText(Top.ns_names[Top.ns_i]), "A", "ns"))
    /\ UNCHANGED <<CACHE, LAST_NAMESERVERS, ret, outcome, cur, prev, calls, replies, cli, printed>>

\* lines 205-206, 210-215: the nested lookup returned; its value is cached
\* under (ns_name, A) and its addresses are gathered
NsReturn ==
    /\ Resuming("wait_ns")
    /\ CACHE' = Put(CACHE, <<Top.ns_names[Top.ns_i], "A">>, ret)
    /\ stack' = SetTop(stack, [Top EXCEPT !.next_ns_ips = GatherA(@, ret),
                                          !.ns_i = @ + 1, !.pc = "nsloop"])
    /\ ret' = None
    /\ UNCHANGED <<LAST_NAMESERVERS, outcome, cur, prev, calls, replies, cli, printed>>

\* lines 217-232 after the loop over the NS names
NsDone ==
    /\ Running("nsloop")
    /\ Top.ns_i > Len(Top.ns_names)
    /\ LET after == AfterReferral(Top, Top.next_ns_ips, CACHE)
       IN /\ stack' = SetTop(stack, after.frame)
          /\ CACHE' = after.cache
          /\ LAST_NAMESERVERS' = after.hint
    /\ UNCHANGED <<ret, outcome, cur, prev, calls, replies, cli, printed>>

----------------------------------------------------------------------------
(* The CLI: collect_results (lines 41-83) and print_results (lines 250-252) *)

CliNames == {"x.t", "ns.t"}

StageType == <<"CNAME", "A", "AAAA", "MX">>

Text(s) == [kind |-> "text", text |-> s]

\* lines 45-50: one entry per record of the answer, whatever its type; the
\* alias of an entry is the record before it, the given name for the first
RECURSIVE Cnames(_, _)
Cnames(recs, tmp) ==
    IF recs = <<>> THEN <<>>
    ELSE <<[name |-> Head(recs), alias |-> tmp]>> \o Cnames(Tail(recs), Head(recs))

\* lines 53-58, 61-66: the records of the given type, with their owner
Addresses(answer, t) ==
    LET hits == SelectSeq(Pairs(answer), LAMBDA pr : pr[2].rdtype = t)
    IN [i \in 1..Len(hits) |-> [name |-> hits[i][1], address |-> hits[i][2].addr]]

\* lines 69-76
MxRecords(answer) ==
    LET hits == SelectSeq(Pairs(answer), LAMBDA pr : pr[2].rdtype = "MX")
    IN [i \in 1..Len(hits) |->
           [name |-> hits[i][1], preference |-> hits[i][2].preference,
            exchange |-> ToText(hits[i][2].target)]]

\* the lists of collect_results after the response of the current stage
Collected(c, response) ==
    LET d == [c EXCEPT !.responses = Append(@, response)]
    IN CASE c.stage = 1 -> [d EXCEPT !.cnames = Cnames(Records(response.answer),
                                                        Text(c.name))]
         [] c.stage = 2 -> [d EXCEPT !.arecords = Addresses(response.answer, "A")]
         [] c.stage = 3 -> [d EXCEPT !.aaaarecords = Addresses(response.answer, "AAAA")]
         [] OTHER -> [d EXCEPT !.mxrecords = MxRecords(response.answer)]

Lines(rtype, results) ==
    [i \in 1..Len(results) |-> [rtype |-> rtype, result |-> results[i]]]

\* lines 250-252: the results, type by type in the order of FORMATS
PrintResults(c) ==
    Lines("CNAME", c.cnames) \o Lines("A", c.arecords)
        \o Lines("AAAA", c.aaaarecords) \o Lines("MX", c.mxrecords)

\* lines 41-44 (and 267-268): collect_results(name) starts with the lookup
\* of CNAME
CollectStart(name) ==
    /\ stack = <<>> /\ ret = None
    /\ cli.stage = 0 /\ calls = 0
    /\ cli' = [NoCli EXCEPT !.stage = 1, !.name = name]
    /\ stack' = <<Frame(FromText(name), "CNAME", "top")>>
    /\ prev' = [call |-> cur.call, outcome |-> outcome]
    /\ cur' = [call |-> <<FromText(name), "CNAME">>,
               miss |-> Key(FromText(name), "CNAME") \notin DOMAIN CACHE,
               quiet |-> TRUE]
    /\ outcome' = Pending
    /\ UNCHANGED <<CACHE, LAST_NAMESERVERS, ret, calls, replies, printed>>

\* lines 44-68: the lookup of a stage returned a message; its answer is
\* read and the lookup of the next type is called
CollectStep ==
    /\ stack = <<>> /\ ret # None
    /\ cli.stage \in 1..3
    /\ ret.kind = "msg"
    /\ cli' = [Collected(cli, ret) EXCEPT !.stage = @ + 1]
    /\ LET name == FromText(cli.name)
           qtype == StageType[cli.stage + 1]
       IN /\ stack' = <<Frame(name, qtype, "top")>>
          /\ cur' = [call |-> <<name, qtype>>,
                     miss |-> Key(name, qtype) \notin DOMAIN CACHE, quiet |-> TRUE]
    /\ prev' = [call |-> cur.call, outcome |-> Returned(ret)]
    /\ outcome' = Pending
    /\ ret' = None
    /\ UNCHANGED <<CACHE, LAST_NAMESERVERS, calls, replies, printed>>

\* lines 68-83, 250-252: the lookup of MX returned; the results are printed
CollectPrint ==
    /\ stack = <<>> /\ ret # None
    /\ cli.stage = 4
    /\ ret.kind = "msg"
    /\ cli' = [Collected(cli, ret) EXCEPT !.stage = 5]
    /\ printed' = PrintResults(Collected(cli, ret))
    /\ outcome' = Returned(ret)
    /\ ret' = None
    /\ UNCHANGED <<CACHE, LAST_NAMESERVERS, stack, cur, prev, calls, replies>>

\* lines 47, 54, 62, 70: the lookup returned a bare record from the cache;
\* reading response.answer raises AttributeError
CollectRaises ==
    /\ stack = <<>> /\ ret # None
    /\ cli.stage \in 1..4
    /\ ret.kind # "msg"
    /\ cli' = [cli EXCEPT !.stage = 6]
    /\ outcome' = Returned(ret)
    /\ ret' = None
    /\ UNCHANGED <<CACHE, LAST_NAMESERVERS, stack, cur, prev, calls, replies, printed>>

----------------------------------------------------------------------------

Next ==
    \/ \E name \in TopNames, qtype \in QTypes : CallLookup(name, qtype)
    \/ TopReturn
    \/ CacheHit
    \/ ScanRaises
    \/ StartWalker
    \/ Fallback
    \/ QueryFail
    \/ QueryAnswer
    \/ QueryCname
    \/ ResumeCname
    \/ ResumeA
    \/ Merge
    \/ MergeRaises
    \/ QueryReferral
    \/ NsCached
    \/ NsCall
    \/ NsReturn
    \/ NsDone
    \/ \E name \in CliNames : CollectStart(name)
    \/ CollectStep
    \/ CollectPrint
    \/ CollectRaises

Spec == Init /\ [][Next]_vars

----------------------------------------------------------------------------
(* Properties *)

TopEntry == Len(stack) = 1 /\ ret = None /\ stack[1].pc = "entry"

Idle == stack = <<>> /\ ret = None

NoRepeat(seq) == \A i, j \in 1..Len(seq) : i # j => seq[i] # seq[j]

\* C1: when lookup(N, T) has returned R, the call lookup(N, T) that follows
\* it at once returns R straight from the cache check: no walker step (so no
\* transport query) is taken, and cache and hint stay as they were.
C1_RepeatServedFromCache ==
    [][(TopEntry /\ prev.outcome.status = "returned" /\ cur.call = prev.call)
         => /\ stack' = <<>>
            /\ ret' = prev.outcome.value
            /\ CACHE' = CACHE
            /\ LAST_NAMESERVERS' = LAST_NAMESERVERS
            /\ replies' = replies]_vars

\* C1 witness: a lookup that went to the servers and returned their answer
\* was repeated and has returned again
C1_Witness ==
    /\ Idle /\ calls = 2 /\ cur.call = prev.call
    /\ prev.outcome.status = "returned" /\ outcome.status = "returned"
    /\ prev.outcome.value.kind = "msg" /\ prev.outcome.value.answer # <<>>

\* C2: a top-level lookup(N, T) that missed the cache and whose every
\* transport query failed or got an empty message has returned the empty
\* Response, without an exception, and the cache holds it under (N, T).
C2_QuietLookupReturnsEmpty ==
    (Idle /\ outcome.status # "pending" /\ cur.miss /\ cur.quiet)
       => /\ outcome = Returned(MakeResponse(cur.call[1], cur.call[2]))
          /\ Key(cur.call[1], cur.call[2]) \in DOMAIN CACHE
          /\ CACHE[Key(cur.call[1], cur.call[2])]
                = MakeResponse(cur.call[1], cur.call[2])

C5_NoServerAskedTwice ==
    \A i \in 1..Len(stack) :
        /\ NoRepeat(stack[i].order)
        /\ Range(stack[i].order) = stack[i].tried

\* C5 witness: a second round over a glue list whose first address had
\* already been asked (it sent the referral that repeats the list), and a
\* round over ROOT_SERVERS after a reset
C5_Witness ==
    \E i \in 1..Len(stack) :
        \/ /\ stack[i].order = <<SeedAddr, GlueAddr, GlueAddr2>>
           /\ stack[i].iter = <<GlueAddr, GlueAddr2>>
           /\ replies = 2
        \/ /\ stack[i].iter = ROOT_SERVERS
           /\ stack[i].order = <<SeedAddr, ROOT_SERVERS[1], ROOT_SERVERS[2]>>
           /\ replies = 2

MergeStep == Resuming("wait_aaaa") /\ ret' # None /\ stack' = Pop(stack)

HoldsAt(cache, key, v) == key \in DOMAIN cache /\ cache[key] = v

RecordsOf(response, t) ==
    SelectSeq(Records(response.answer), LAMBDA rr : rr.rdtype = t)

LinesOf(t) == SelectSeq(printed, LAMBDA line : line.rtype = t)

TypeRank(t) == CHOOSE k \in 1..4 : StageType[k] = t

RECURSIVE Related(_, _, _)
Related(owners, answer, n) ==
    IF n = 0 THEN owners
    ELSE Related(owners \cup {Lower(rr.target) :
                       rr \in {pr[2] : pr \in {p \in Range(Pairs(answer)) :
                                   p[2].rdtype = "CNAME" /\ Lower(p[1]) \in owners}}},
                 answer, n - 1)

NoAddressReply(response) ==
    /\ response # None
    /\ response.answer = <<>>
    /\ GluePairs(response.additional) = <<>>
    /\ OfType(response.authority, "NS") = <<>>

\* the address the for loop of frame f takes next, 0 when there is none
NextAddr(f) == IF NextIdx(f) = 0 THEN 0 ELSE f.iter[NextIdx(f)]

RECURSIVE FirstAppearances(_, _)
FirstAppearances(seen, recs) ==
    IF recs = <<>> THEN seen
    ELSE FirstAppearances(AppendNew(seen, Head(recs).addr), Tail(recs))

\* the frame of the call that was innermost before the step, after the step
Same == stack'[Len(stack)]

\* C14: a reply with an empty answer whose additional section holds an A
\* record makes no nested lookup; the addresses of the A records, in order of
\* first appearance and without repetition, become the candidates of the next
\* round and the hint.
C14_GlueBecomesCandidatesAndHint ==
    [][(/\ Running("for") /\ replies' = replies + 1
        /\ Len(stack') >= Len(stack)
        /\ Same.response.answer = <<>>
        /\ GluePairs(Same.response.additional) # <<>>)
         => LET glue == FirstAppearances(<<>>,
                           Records(OfType(Same.response.additional, "A")))
            IN /\ Len(stack') = Len(stack)
               /\ Same.pc = "for" /\ Same.idx = 1
               /\ Same.nameservers = glue /\ Same.iter = glue
               /\ LAST_NAMESERVERS' = glue]_vars

\* C14 witness: the round over the two addresses of a glue that lists three
\* A records, the first address twice
C14_Witness ==
    /\ Running("for") /\ Top.idx = 1
    /\ Top.response = GluedReferral(Top.target_name, Top.qtype)
    /\ Len(Records(Top.response.additional)) = 3
    /\ Top.iter = <<GlueAddr, GlueAddr2>>
    /\ LAST_NAMESERVERS = <<GlueAddr, GlueAddr2>>

\* the A records a cache entry or a returned value records: those of its
\* answer section when it is a message, the record itself when it is one
EntryARecords(v) ==
    IF v.kind = "msg" THEN Records(OfType(v.answer, "A"))
    ELSE IF v.kind = "rr" /\ v.rdtype = "A" THEN <<v>> ELSE <<>>

FirstUntried(list, tried) ==
    LET open == {k \in 1..Len(list) : list[k] \notin tried}
    IN IF open = {} THEN 0 ELSE list[CHOOSE k \in open : \A m \in open : k <= m]

\* the frame f as it would be in its round had the first address of the
\* list, which failed, not been in the list
WithoutFirst(f) ==
    [f EXCEPT !.iter = Tail(@), !.nameservers = Tail(@), !.idx = @ - 1,
              !.tried = @ \ {f.iter[1]},
              !.order = SubSeq(@, 1, Len(@) - 1), !.fail_count = 0]

\* a frame without the record of the addresses it has asked
Forgetting(f) == [f EXCEPT !.tried = {}, !.order = <<>>]

\* C17: candidates are tried in list order and a failed query only moves on
\* to the next one.  The address queried is always the first untried address
\* of the list; after a failure the walker is in the same round with the
\* same list; and when the first candidate of a round has failed and the
\* second answers with a referral with glue, the walker goes on exactly as
\* if the first candidate had not been in the list, except that it remembers
\* having asked it.
C17_FailureOnlyAdvances ==
    [][/\ (Running("for") /\ NextIdx(Top) # 0 /\ stack' # stack)
            => /\ Len(stack') >= Len(stack) =>
                    Same.order = Append(Top.order, FirstUntried(Top.iter, Top.tried))
               /\ replies' = replies
                    => /\ Len(stack') = Len(stack)
                       /\ Same.pc = "for" /\ Same.iter = Top.iter
                       /\ NextAddr(Same) = FirstUntried(Top.iter, Same.tried)
                       /\ CACHE' = CACHE
       /\ (/\ Running("for") /\ Top.idx = 2 /\ Top.fail_count = 1
           /\ Len(Top.iter) >= 2 /\ Top.iter[2] \notin Top.tried
           /\ Top.order # <<>> /\ Top.order[Len(Top.order)] = Top.iter[1]
           /\ replies' = replies + 1
           /\ Len(stack') >= Len(stack)
           /\ Same.response.answer = <<>>
           /\ GluePairs(Same.response.additional) # <<>>)
            => LET glue == FirstAppearances(<<>>,
                              Records(OfType(Same.response.additional, "A")))
                   h == [Asked(WithoutFirst(Top), 1) EXCEPT
                            !.response = Same.response]
                   expected == AfterReferral(h, glue, CACHE')
               IN /\ Same.order = Append(Top.order, Top.iter[2])
                  /\ Forgetting(Same) = Forgetting(expected.frame)
                  /\ LAST_NAMESERVERS' = expected.hint]_vars

\* C17 witness: the first address of the glue list failed, the second one
\* answered with a referral with glue, and the round over its glue has begun
C17_Witness ==
    /\ Running("for") /\ Top.idx = 1 /\ Top.fail_count = 0
    /\ Top.order = <<SeedAddr, GlueAddr, GlueAddr2>>
    /\ Top.response.answer = <<>>
    /\ GluePairs(Top.response.additional) # <<>>
    /\ Top.iter = FirstAppearances(<<>>, Records(Top.response.additional))
    /\ LAST_NAMESERVERS = Top.iter
    /\ replies = 2

IsIpv4List(list) ==
    list # <<>> /\ \A k \in 1..Len(list) : ~HasColon(list[k])

\* C19: the hint is at all times a non-empty list of IPv4 addresses; a
\* lookup that missed the cache starts its walker with at least one
\* candidate, and has sent at least one query when it returns the empty
\* Response.
C19_HintIsNeverEmpty ==
    [][/\ IsIpv4List(LAST_NAMESERVERS) /\ IsIpv4List(LAST_NAMESERVERS')
       /\ (Running("entry") /\ Len(stack') = Len(stack) /\ Same.pc = "for")
            => IsIpv4List(Same.nameservers) /\ Same.iter = Same.nameservers
       /\ (Running("for") /\ NextIdx(Top) = 0 /\ Len(stack') < Len(stack))
            => Top.order # <<>>]_vars

\* C19 witness: a lookup has returned the empty Response after its queries,
\* and the hint is the glue list of the last referral
C19_Witness ==
    /\ Idle /\ outcome.status = "returned" /\ cur.miss
    /\ outcome.value = MakeResponse(cur.call[1], cur.call[2])
    /\ LAST_NAMESERVERS = <<GlueAddr, GlueAddr2>>

\* no proper ancestor of name has a cached NS entry that yields an address
NoUsableAncestor(name, cache) ==
    \A k \in 2..Len(name) :
        LET p == SubSeq(name, k, Len(name))
        IN Key(p, "NS") \in DOMAIN cache
              => CachedNsIps(cache[Key(p, "NS")], cache) = <<>>

\* C20: on a cache miss, when no ancestor of the name has a cached NS entry
\* that yields an address, the ancestor scan ends without an exception and
\* the walker starts from the hint.
C20_ScanFallsThroughToWalker ==
    [][(/\ Running("entry")
        /\ Key(Top.target_name, Top.qtype) \notin DOMAIN CACHE
        /\ NoUsableAncestor(Top.target_name, CACHE))
         => /\ Len(stack') = Len(stack)
            /\ Same.pc = "for"
            /\ Same.nameservers = LAST_NAMESERVERS
            /\ LAST_NAMESERVERS' = LAST_NAMESERVERS]_vars

====
